---- MODULE Spec2Model ----
(***************************************************************************)
(* xport.py: the SAS transport (XPORT) to CSV converter, as a state        *)
(* machine over 80-byte physical records.                                  *)
(*                                                                         *)
(* Bytes are integers 0..255, byte strings are sequences of bytes, text is *)
(* a sequence of code points.  Python's exceptions are values: an operator *)
(* that models a function which can raise returns a record whose field     *)
(* `error` names the exception class ("none" when it returns normally).    *)
(***************************************************************************)
EXTENDS Integers, Sequences, FiniteSets, TLC

(***************************************************************************)
(* Byte strings                                                            *)
(***************************************************************************)
NUL == 0
NL == 10
SP == 32
DOT == 46
Digits == 48..57
Upper == 65..90
Lower == 97..122
\* str.rstrip() with no argument strips ASCII whitespace
Whitespace == {9, 10, 11, 12, 13, 32}

Rep(b, n) == [i \in 1..n |-> b]

Max(S) == CHOOSE x \in S : \A y \in S : y <= x
Min(S) == CHOOSE x \in S : \A y \in S : x <= y

\* s[a:b] for 0 <= a, b given as Python offsets; the general slice is PySlice
Slice(s, a, b) == SubSeq(s, a + 1, b)

\* Python's s[a:b] with its clamping of negative and oversized offsets
PySlice(s, a, b) ==
    LET n == Len(s)
        lo == IF a < 0 THEN Max({a + n, 0}) ELSE Min({a, n})
        hi == IF b < 0 THEN Max({b + n, 0}) ELSE Min({b, n})
    IN  IF lo >= hi THEN <<>> ELSE SubSeq(s, lo + 1, hi)

\* bytes.rstrip(chars)
rstrip(s, chars) ==
    SubSeq(s, 1, Max({0} \cup {i \in 1..Len(s) : s[i] \notin chars}))

\* the length of the longest run of bytes of `class` in s from index i (1-based)
RunLen(s, i, class) ==
    Min({n \in 0..(Len(s) + 1 - i) : i + n > Len(s) \/ s[i + n] \notin class})

\* whether the literal lit stands in s at index i
LitAt(s, i, lit) ==
    /\ i + Len(lit) - 1 <= Len(s)
    /\ \A j \in 1..Len(lit) : s[i + j - 1] = lit[j]

\* the regex tail " *$": spaces up to the end of the string, where $ also
\* matches just before a newline that ends the string
SpacesToEnd(s, i) ==
    LET j == i + RunLen(s, i, {SP})
    IN  j = Len(s) + 1 \/ (j = Len(s) /\ s[j] = NL)

(***************************************************************************)
(* The header patterns (re.DOTALL, matched from the start of the record)   *)
(***************************************************************************)
HEADER_RECORD_STARS ==  \* "HEADER RECORD*******"
    <<72, 69, 65, 68, 69, 82, 32, 82, 69, 67, 79, 82, 68, 42, 42, 42, 42, 42, 42, 42>>
HEADER_RECORD_BANGS ==  \* "HEADER RECORD!!!!!!!"
    <<72, 69, 65, 68, 69, 82, 32, 82, 69, 67, 79, 82, 68, 33, 33, 33, 33, 33, 33, 33>>
LIB == <<76, 73, 66>>
MEM == <<77, 69, 77>>
DSC == <<68, 83, 67>>
NAM == <<78, 65, 77>>
OBS == <<79, 66, 83>>
SAS == <<83, 65, 83>>

\* SAS_HEADER(headertype, data): "^HEADER RECORD\*{7}" headertype
\* " +HEADER RECORD!{7}" data " *$".  headertype is tag [A-Z0-9]+ (least = 1)
\* or tag [A-Z0-9]* (least = 0).  The value is the index at which `data` must
\* begin, 0 when the record does not match that far.
SAS_HEADER(tag, least, record) ==
    LET t == Len(HEADER_RECORD_STARS) + 1
        a == t + Len(tag)
        n == RunLen(record, a, Upper \cup Digits)
        b == a + n
        m == RunLen(record, b, {SP})
        h == b + m
    IN  IF /\ LitAt(record, 1, HEADER_RECORD_STARS)
           /\ LitAt(record, t, tag)
           /\ n >= least
           /\ m >= 1
           /\ LitAt(record, h, HEADER_RECORD_BANGS)
        THEN h + Len(HEADER_RECORD_BANGS)
        ELSE 0

\* SAS_HEADER(b'LIB[A-Z0-9]+', b'0{30}')
LIBRARY_HEADER(record) ==
    LET d == SAS_HEADER(LIB, 1, record)
    IN  d > 0 /\ LitAt(record, d, Rep(48, 30)) /\ SpacesToEnd(record, d + 30)

\* b'^(.{8})(.{8})(.{8})(.{8})(.{8}) {24}(.{16})$'
REAL_HEADER(record) ==
    Len(record) = 80 /\ LitAt(record, 41, Rep(SP, 24))

\* SAS_HEADER(b'MEM[A-Z0-9]+', b'0{16}01600000000140')
MEMBER_HEADER(record) ==
    LET d == SAS_HEADER(MEM, 1, record)
    IN  /\ d > 0
        /\ LitAt(record, d,
                 Rep(48, 16) \o <<48, 49, 54, 48, 48, 48, 48, 48, 48, 48, 48, 49, 52, 48>>)
        /\ SpacesToEnd(record, d + 30)

\* SAS_HEADER(b'DSC[A-Z0-9]+', b'0{30}')
DESCRIPTOR_HEADER(record) ==
    LET d == SAS_HEADER(DSC, 1, record)
    IN  d > 0 /\ LitAt(record, d, Rep(48, 30)) /\ SpacesToEnd(record, d + 30)

\* b'^(.{8})(.{8})(.{8})(.{8})(.{8}) {24}(.{16})$'
REAL_MEMBER_HEADER_6(record) ==
    Len(record) = 80 /\ LitAt(record, 41, Rep(SP, 24))

\* b'^(.{8})(.{32})(.{8})(.{8})(.{8})(.{16})$'
REAL_MEMBER_HEADER_8(record) ==
    Len(record) = 80

\* b'^(.{16}) {16}(.{40})(.{8})$'
REAL_MEMBER_HEADER2(record) ==
    Len(record) = 80 /\ LitAt(record, 17, Rep(SP, 16))

\* SAS_HEADER(b'NAM[A-Z0-9]+', b'0{6}([0-9]{6})0+'): the captured count, or
\* <<>> when the record does not match
NAMESTR_HEADER(record) ==
    LET d == SAS_HEADER(NAM, 1, record)
        z == RunLen(record, d + 12, {48})
    IN  IF /\ d > 0
           /\ LitAt(record, d, Rep(48, 6))
           /\ RunLen(record, d + 6, Digits) >= 6
           /\ z >= 1
           /\ SpacesToEnd(record, d + 12 + z)
        THEN SubSeq(record, d + 6, d + 11)
        ELSE <<>>

\* SAS_HEADER(b'OBS[A-Z0-9]*', b'0+')
OBSERVATION_HEADER(record) ==
    LET d == SAS_HEADER(OBS, 0, record)
        z == RunLen(record, d, {48})
    IN  d > 0 /\ z >= 1 /\ SpacesToEnd(record, d + z)

(***************************************************************************)
(* Text: bytes.decode() under the two encodings the program uses           *)
(***************************************************************************)
\* the number of bytes of the UTF-8 sequence a lead byte opens, 0 for a byte
\* that can open none
Utf8Width(b0) ==
    IF b0 <= 127 THEN 1
    ELSE IF b0 \in 194..223 THEN 2
    ELSE IF b0 \in 224..239 THEN 3
    ELSE IF b0 \in 240..244 THEN 4
    ELSE 0

\* the values the first continuation byte may take after lead byte b0 (no
\* overlong forms, no surrogates, nothing above U+10FFFF)
Utf8Second(b0) ==
    IF b0 = 224 THEN 160..191
    ELSE IF b0 = 237 THEN 128..159
    ELSE IF b0 = 240 THEN 144..191
    ELSE IF b0 = 244 THEN 128..143
    ELSE 128..191

Utf8WellFormedAt(s, i) ==
    LET w == Utf8Width(s[i])
    IN  /\ w >= 1
        /\ i + w - 1 <= Len(s)
        /\ w >= 2 => s[i + 1] \in Utf8Second(s[i])
        /\ \A k \in 2..(w - 1) : s[i + k] \in 128..191

Utf8CodePoint(s, i) ==
    LET w == Utf8Width(s[i])
    IN  IF w = 1 THEN s[i]
        ELSE IF w = 2 THEN (s[i] - 192) * 64 + (s[i + 1] - 128)
        ELSE IF w = 3 THEN (s[i] - 224) * 4096 + (s[i + 1] - 128) * 64 + (s[i + 2] - 128)
        ELSE (s[i] - 240) * 262144 + (s[i + 1] - 128) * 4096
             + (s[i + 2] - 128) * 64 + (s[i + 3] - 128)

\* the indices of the bytes of s that are no continuation bytes: where the
\* UTF-8 sequences of a well-formed s begin
Utf8Starts(s) == {i \in 1..Len(s) : s[i] \notin 128..191}

\* whether s is well-formed UTF-8: a well-formed sequence begins at every
\* byte that is no continuation byte, and every continuation byte belongs to
\* the sequence that begins before it
Utf8Valid(s) ==
    /\ \A i \in Utf8Starts(s) : Utf8WellFormedAt(s, i)
    /\ \A c \in (1..Len(s)) \ Utf8Starts(s) :
            \E i \in Utf8Starts(s) : i < c /\ c < i + Utf8Width(s[i])

\* the index in s of the k-th of its sequences
Utf8Nth(s, k) ==
    CHOOSE i \in Utf8Starts(s) : Cardinality({j \in Utf8Starts(s) : j <= i}) = k

\* the code points of a well-formed s
Utf8Text(s) == [k \in 1..Cardinality(Utf8Starts(s)) |-> Utf8CodePoint(s, Utf8Nth(s, k))]

\* bytes.decode(encoding), errors='strict': UnicodeDecodeError or the text
decode(s, encoding) ==
    IF encoding = "latin1" THEN [error |-> "none", text |-> s]
    ELSE IF Utf8Valid(s) THEN [error |-> "none", text |-> Utf8Text(s)]
    ELSE [error |-> "UnicodeDecodeError", text |-> <<>>]

(***************************************************************************)
(* decode_sas_datetime: datetime.strptime(datestring, '%d%b%y:%H:%M:%S').  *)
(* The 16-character spellings are modelled (DDMONYY:HH:MM:SS, the day also *)
(* as a space and a digit); the value is <<year, month, day, h, m, s>>.    *)
(***************************************************************************)
MONTHS ==
    << <<74, 65, 78>>, <<70, 69, 66>>, <<77, 65, 82>>, <<65, 80, 82>>,
       <<77, 65, 89>>, <<74, 85, 78>>, <<74, 85, 76>>, <<65, 85, 71>>,
       <<83, 69, 80>>, <<79, 67, 84>>, <<78, 79, 86>>, <<68, 69, 67>> >>

upper(b) == IF b \in Lower THEN b - 32 ELSE b
lower(b) == IF b \in Upper THEN b + 32 ELSE b

TwoDigits(s, i) == (s[i] - 48) * 10 + (s[i + 1] - 48)

DaysInMonth(y, m) ==
    IF m = 2 THEN (IF y % 4 = 0 /\ (y % 100 # 0 \/ y % 400 = 0) THEN 29 ELSE 28)
    ELSE IF m \in {4, 6, 9, 11} THEN 30 ELSE 31

decode_sas_datetime(datestring) ==
    LET s == datestring
        bad == [error |-> "ValueError", value |-> <<>>]
        mon == {k \in 1..12 : \A j \in 1..3 : upper(s[2 + j]) = MONTHS[k][j]}
    IN  IF Len(s) # 16 THEN bad
        ELSE IF ~(/\ s[1] \in Digits \cup {SP}
                  /\ \A i \in {2, 6, 7, 9, 10, 12, 13, 15, 16} : s[i] \in Digits
                  /\ s[8] = 58 /\ s[11] = 58 /\ s[14] = 58
                  /\ mon # {})
        THEN bad
        ELSE LET d == IF s[1] = SP THEN s[2] - 48 ELSE TwoDigits(s, 1)
                 m == CHOOSE k \in mon : TRUE
                 yy == TwoDigits(s, 6)
                 \* the calendar library's pivot: 69..99 are 19xx, 00..68 are 20xx
                 y == IF yy >= 69 THEN 1900 + yy ELSE 2000 + yy
                 hh == TwoDigits(s, 9)
                 mm == TwoDigits(s, 12)
                 ss == TwoDigits(s, 15)
             IN  IF d >= 1 /\ d <= DaysInMonth(y, m) /\ hh <= 23 /\ mm <= 59 /\ ss <= 59
                 THEN [error |-> "none", value |-> <<y, m, d, hh, mm, ss>>]
                 ELSE bad

\* field.decode() followed by decode_sas_datetime
decode_then_datetime(field) ==
    IF decode(field, "utf8").error # "none"
    THEN [error |-> "UnicodeDecodeError", value |-> <<>>]
    ELSE decode_sas_datetime(field)

(***************************************************************************)
(* ibm_to_double.  A 64-bit integer is a sequence of 64 bits, most         *)
(* significant first; a Python float is the 8 bytes of its IEEE 754        *)
(* binary64 encoding, most significant first.  Values a decoder returns:   *)
(*   [t |-> "float", v |-> bytes], [t |-> "None"], [t |-> "nan"],          *)
(*   [t |-> "bytes", v |-> bytes], [t |-> "str", v |-> code points].       *)
(***************************************************************************)
IBM ==
    [bits |-> 64, mantissa_bits |-> 56, exponent_bits |-> 7,
     exponent_multiplier |-> 4, exponent_bias |-> 64]
IEEE ==
    [bits |-> 64, mantissa_bits |-> 52, exponent_bits |-> 11,
     exponent_multiplier |-> 1, exponent_bias |-> 1023]

\* sys.byteorder of the host
sys_byteorder == "little"

None == [t |-> "None"]
nan == [t |-> "nan"]
Float(bytes) == [t |-> "float", v |-> bytes]
Str(text) == [t |-> "str", v |-> text]

RECURSIVE Pow2(_)
Pow2(n) == IF n = 0 THEN 1 ELSE 2 * Pow2(n - 1)

\* the w bits of n, most significant first (0 <= n < 2^w, w <= 11)
ToBits(n, w) == [i \in 1..w |-> (n \div Pow2(w - i)) % 2]

\* the number a sequence of at most 11 bits denotes
FromBits(b) ==
    LET RECURSIVE val(_)
        val(k) == IF k = 0 THEN 0 ELSE 2 * val(k - 1) + b[k]
    IN  val(Len(b))

BytesToBits(bytes) == [i \in 1..(8 * Len(bytes)) |-> ToBits(bytes[(i + 7) \div 8], 8)[((i - 1) % 8) + 1]]
BitsToBytes(bits) == [k \in 1..(Len(bits) \div 8) |-> FromBits(SubSeq(bits, 8 * k - 7, 8 * k))]

Reverse(s) == [i \in 1..Len(s) |-> s[Len(s) + 1 - i]]

\* int.bit_length() of the number the bits denote
bit_length(bits) ==
    IF \A i \in 1..Len(bits) : bits[i] = 0 THEN 0
    ELSE Len(bits) + 1 - Min({i \in 1..Len(bits) : bits[i] = 1})

\* a repacking that hands out the packed bytes in network order on every host
ibm_repack_network(repacked, pack_output) ==
    [error |-> "none",
     value |-> IF pack_output THEN [t |-> "bytes", v |-> repacked] ELSE Float(repacked)]

\* sign | exponent | mantissa, packed '>Q', as the float or as its bytes in host order
ibm_repack(repacked, pack_output) ==
    [error |-> "none",
     value |-> IF pack_output
               THEN [t |-> "bytes",
                     v |-> IF sys_byteorder = "big" THEN repacked ELSE Reverse(repacked)]
               ELSE Float(repacked)]

\* a conversion whose overflow test allows one bit less to the exponent
ibm_shifted_narrow(sign, exponent, mantissa, shift, pack_output) ==
    IF (exponent * IBM.exponent_multiplier) + (IBM.exponent_multiplier - shift)
       + IEEE.exponent_bias >= Pow2(IEEE.exponent_bits - 1)
    THEN [error |-> "FloatingPointError", value |-> None]
    ELSE ibm_repack(
           BitsToBytes(<<sign>>
                       \o ToBits((exponent * IBM.exponent_multiplier)
                                 + (IBM.exponent_multiplier - shift)
                                 + IEEE.exponent_bias, IEEE.exponent_bits)
                       \o SubSeq(SubSeq(mantissa, shift + 1, IBM.mantissa_bits)
                                 \o Rep(0, shift), 1, IEEE.mantissa_bits)),
           pack_output)

\* the lines of ibm_to_double after the shift is known
ibm_shifted(sign, exponent, mantissa, shift, pack_output) ==
    \* exponent = ((exponent * 4) + (4 - shift) + 1023) << 52, and the test
    \* exponent.bit_length() > 56 + 7
    IF (exponent * IBM.exponent_multiplier) + (IBM.exponent_multiplier - shift)
       + IEEE.exponent_bias >= Pow2(IEEE.exponent_bits)
    THEN [error |-> "FloatingPointError", value |-> None]
    ELSE ibm_repack(
           BitsToBytes(<<sign>>
                       \o ToBits((exponent * IBM.exponent_multiplier)
                                 + (IBM.exponent_multiplier - shift)
                                 + IEEE.exponent_bias, IEEE.exponent_bits)
                       \* (mantissa << shift) & bitmask(56), then mantissa >>= 4
                       \o SubSeq(SubSeq(mantissa, shift + 1, IBM.mantissa_bits)
                                 \o Rep(0, shift), 1, IEEE.mantissa_bits)),
           pack_output)

\* an unpacking that takes the exponent as E - 64, the bias alone
ibm_unpacked_unbiased(integer, pack_output) ==
    ibm_shifted(integer[1],
                FromBits(SubSeq(integer, 2, 8)) - IBM.exponent_bias,
                SubSeq(integer, 9, 64),
                IBM.mantissa_bits - bit_length(SubSeq(integer, 9, 64)) + 1,
                pack_output)

\* the lines of ibm_to_double after struct.unpack('>Q', bytestring)
ibm_unpacked(integer, pack_output) ==
    ibm_shifted(integer[1],
                \* (remainder >> IBM.mantissa_bits) - IBM.exponent_bias - 1
                FromBits(SubSeq(integer, 2, 8)) - IBM.exponent_bias - 1,
                SubSeq(integer, 9, 64),
                IBM.mantissa_bits - bit_length(SubSeq(integer, 9, 64)) + 1,
                pack_output)

\* the sentinels: check = bytestring.rstrip(b'\0') of length at most 1
ibm_sentinel(bytestring, check, pack_output) ==
    IF check = <<>>
    THEN [error |-> "none",
          value |-> IF pack_output THEN [t |-> "bytes", v |-> bytestring]
                    ELSE Float(Rep(0, 8))]
    ELSE [error |-> "none", value |-> IF check = <<DOT>> THEN None ELSE nan]

ibm_to_double(bytestring, pack_output) ==
    IF Len(rstrip(bytestring, {NUL})) <= 1
    THEN ibm_sentinel(bytestring, rstrip(bytestring, {NUL}), pack_output)
    ELSE IF Len(bytestring) # 8
    THEN [error |-> "struct.error", value |-> None]   \* struct.unpack('>Q', ...)
    ELSE ibm_unpacked(BytesToBits(bytestring), pack_output)

(***************************************************************************)
(* The format decoders.  The text a decoder returns is str() of a date,    *)
(* time or datetime computed from the offset; the model keeps the format   *)
(* and the offset that determine it: [t |-> "date", v |-> offset bytes].   *)
(* timedelta() raises TypeError for None and ValueError for nan.           *)
(***************************************************************************)
MISSING == <<DOT, 0, 0, 0, 0, 0, 0, 0>>

\* The offset of largest magnitude that SAS_EPOCH + timedelta(...) accepts,
\* as the bytes of the double: the dates of datetime run from year 1 to 9999.
TemporalLimit(kind, negative) ==
    IF kind = "date"
    THEN IF negative THEN <<65, 37, 213, 234, 0, 0, 0, 0>>
         ELSE <<65, 70, 103, 114, 255, 255, 255, 255>>
    ELSE IF negative THEN <<66, 44, 201, 131, 255, 0, 0, 0>>
         ELSE <<66, 77, 137, 98, 28, 127, 255, 255>>

\* the magnitude of the double v is beyond the limit, byte by byte
Overflows(kind, v) ==
    \E i \in 1..Len(v) :
        /\ (IF i = 1 THEN v[1] % 128 ELSE v[i]) > TemporalLimit(kind, v[1] >= 128)[i]
        /\ \A j \in 1..(i - 1) :
               (IF j = 1 THEN v[1] % 128 ELSE v[j]) = TemporalLimit(kind, v[1] >= 128)[j]

\* str(SAS_EPOCH + timedelta(...=offset)), offset the result r of ibm_to_double
Formatted(kind, r) ==
    IF r.error # "none" THEN r
    ELSE IF r.value = None THEN [error |-> "TypeError", value |-> None]
    ELSE IF r.value = nan THEN [error |-> "ValueError", value |-> None]
    ELSE IF Overflows(kind, r.value.v)
    THEN [error |-> "OverflowError", value |-> None]
    ELSE [error |-> "none", value |-> [t |-> kind, v |-> r.value.v]]

Temporal(kind, rawdatum) == Formatted(kind, ibm_to_double(rawdatum, FALSE))

decode_date(rawdatum) ==
    IF rawdatum = MISSING THEN [error |-> "none", value |-> None]
    ELSE Temporal("date", rawdatum)

decode_time(rawdatum) ==
    IF rawdatum \in {MISSING, Rep(0, 8)} THEN [error |-> "none", value |-> None]
    ELSE Temporal("time", rawdatum)

decode_datetime(rawdatum) ==
    IF rawdatum = MISSING THEN [error |-> "none", value |-> None]
    ELSE Temporal("datetime", rawdatum)

(***************************************************************************)
(* decode_string.  DOCUMENT['encoding'] is module state: the operator      *)
(* takes its value and returns the value it leaves behind.                 *)
(***************************************************************************)
ESC_UNICODE ==  \* "(*ESC*){unicode "
    <<40, 42, 69, 83, 67, 42, 41, 123, 117, 110, 105, 99, 111, 100, 101, 32>>
HexDigits == Digits \cup (65..70) \cup (97..102)
HexDigit(c) == IF c \in Digits THEN c - 48 ELSE IF c \in 65..70 THEN c - 55 ELSE c - 87
MaxCodePoint == 1114111

\* int(digits, 16), capped above every code point
HexValue(digits) ==
    LET RECURSIVE val(_)
        val(k) == IF k = 0 THEN 0
                  ELSE Min({MaxCodePoint + 1, 16 * val(k - 1) + HexDigit(digits[k])})
    IN  val(Len(digits))

\* the length of the match of \(\*ESC\*\)\{unicode ([0-9a-fA-F]+)\} at index i
\* of text, 0 when there is none
EscMatch(text, i) ==
    LET h == RunLen(text, i + Len(ESC_UNICODE), HexDigits)
        close == i + Len(ESC_UNICODE) + h
    IN  IF LitAt(text, i, ESC_UNICODE) /\ h >= 1 /\ close <= Len(text) /\ text[close] = 125
        THEN Len(ESC_UNICODE) + h + 1
        ELSE 0

\* what the match of length n at index i is replaced by (n = 0: no match, the
\* character stays)
EscChar(text, i, n) ==
    IF n = 0 THEN text[i] ELSE HexValue(SubSeq(text, i + Len(ESC_UNICODE), i + n - 2))

RECURSIVE EscSub(_, _, _)
\* re.sub of every match by unichr(int(group(1), 16)), from index i, appended
\* to acc; <<-1>> when unichr raises
EscSub(text, i, acc) ==
    IF i > Len(text) THEN acc
    ELSE IF EscChar(text, i, EscMatch(text, i)) > MaxCodePoint THEN <<-1>>
    ELSE EscSub(text, i + Max({1, EscMatch(text, i)}),
                Append(acc, EscChar(text, i, EscMatch(text, i))))

\* the lines of decode_string after the decode: the re.sub and the return
decode_string_cleaned(cleaned, encoding) ==
    [error |-> IF cleaned = <<-1>> THEN "ValueError" ELSE "none",
     value |-> Str(cleaned), encoding |-> encoding]

\* a decode_stripped that falls back to Latin-1 without recording it
decode_stripped_forgetful(stripped, encoding) ==
    IF decode(stripped, encoding).error = "none"
    THEN decode_string_cleaned(EscSub(decode(stripped, encoding).text, 1, <<>>), encoding)
    ELSE decode_string_cleaned(EscSub(decode(stripped, "latin1").text, 1, <<>>), encoding)

\* decode_string after stripped = string.rstrip(b'\0 ')
decode_stripped(stripped, encoding) ==
    IF decode(stripped, encoding).error = "none"
    THEN decode_string_cleaned(EscSub(decode(stripped, encoding).text, 1, <<>>), encoding)
    \* except UnicodeDecodeError: DOCUMENT['encoding'] = 'latin1';
    \* return decode_string(string)
    ELSE decode_string_cleaned(EscSub(decode(stripped, "latin1").text, 1, <<>>), "latin1")

decode_string(string, encoding) == decode_stripped(rstrip(string, {NUL, SP}), encoding)

(***************************************************************************)
(* NAMESTR and unpack_name                                                 *)
(***************************************************************************)
\* the named groups of NAMESTR: name, offset, width, in the pattern's order
NAMESTR_GROUPS ==
    << <<"ntype", 0, 2>>, <<"nhfun", 2, 2>>, <<"nlng", 4, 2>>, <<"nvar0", 6, 2>>,
       <<"nname", 8, 8>>, <<"nlabel", 16, 40>>, <<"nform", 56, 8>>, <<"nfl", 64, 2>>,
       <<"nfd", 66, 2>>, <<"nfj", 68, 2>>, <<"nfill", 70, 2>>, <<"niform", 72, 8>>,
       <<"nifl", 80, 2>>, <<"nifd", 82, 2>>, <<"npos", 84, 4>>, <<"longname", 88, 32>>,
       <<"lablen", 120, 2>>, <<"rest", 122, 18>> >>
NamestrKeys == {NAMESTR_GROUPS[i][1] : i \in 1..Len(NAMESTR_GROUPS)}
NamestrLen == 140

\* whether NAMESTR matches the byte string (18 groups of fixed width, then $)
NAMESTR(namestring) == Len(namestring) = NamestrLen

groupdict(namestring) ==
    [key \in NamestrKeys |->
        LET g == CHOOSE i \in 1..Len(NAMESTR_GROUPS) : NAMESTR_GROUPS[i][1] = key
        IN  Slice(namestring, NAMESTR_GROUPS[g][2],
                  NAMESTR_GROUPS[g][2] + NAMESTR_GROUPS[g][3])]

\* struct.unpack('>h', value) and struct.unpack('>l', value): signed, big-endian
unpack_h(value) == (IF value[1] >= 128 THEN value[1] - 256 ELSE value[1]) * 256 + value[2]
unpack_l(value) ==
    (IF value[1] >= 128 THEN value[1] - 256 ELSE value[1]) * 16777216
    + value[2] * 65536 + value[3] * 256 + value[4]

IsTextKey(key, value) == key \in {"nfill", "rest"} \/ Len(value) \notin {2, 4}

unpack_name(groups) ==
    LET bad == {key \in NamestrKeys :
                   /\ IsTextKey(key, groups[key])
                   /\ decode(rstrip(groups[key], {NUL, SP}), "utf8").error # "none"}
    IN  [error |-> IF bad = {} THEN "none" ELSE "UnicodeDecodeError",
         value |-> [key \in NamestrKeys |->
                      IF IsTextKey(key, groups[key])
                      THEN decode(rstrip(groups[key], {NUL, SP}), "utf8").text
                      ELSE IF Len(groups[key]) = 2 THEN unpack_h(groups[key])
                      ELSE unpack_l(groups[key])]]

(***************************************************************************)
(* unpack_record                                                           *)
(***************************************************************************)
\* the functions globals()['decode_%s' % nform.lower()] can find
DecoderNames ==
    { <<100, 97, 116, 101>>,                        \* "date"
      <<116, 105, 109, 101>>,                       \* "time"
      <<100, 97, 116, 101, 116, 105, 109, 101>>,    \* "datetime"
      <<115, 116, 114, 105, 110, 103>> }            \* "string"

WithEncoding(r, encoding) == [error |-> r.error, value |-> r.value, encoding |-> encoding]

\* decode_number(rawdatum), decode_number = globals()['decode_' + name], or
\* ibm_to_double when nform is empty
decode_number(name, rawdatum, encoding) ==
    IF name = <<>> THEN WithEncoding(ibm_to_double(rawdatum, FALSE), encoding)
    ELSE IF name = <<100, 97, 116, 101>> THEN WithEncoding(decode_date(rawdatum), encoding)
    ELSE IF name = <<116, 105, 109, 101>> THEN WithEncoding(decode_time(rawdatum), encoding)
    ELSE IF name = <<100, 97, 116, 101, 116, 105, 109, 101>>
    THEN WithEncoding(decode_datetime(rawdatum), encoding)
    ELSE decode_string(rawdatum, encoding)

\* one pass of the loop body of unpack_record, name = field['nform'].lower()
unpack_field(rawdatum, ntype, name, encoding) ==
    IF name # <<>> /\ name \notin DecoderNames
    THEN [error |-> "KeyError", value |-> None, encoding |-> encoding]
    ELSE IF ntype \in {1, -1} THEN decode_number(name, rawdatum, encoding)
    ELSE IF ntype \in {2, 0} THEN decode_string(rawdatum, encoding)
    \* (decode_number, decode_string)[ntype - 1]
    ELSE [error |-> "IndexError", value |-> None, encoding |-> encoding]

\* data.append(...) of one field's value, or the exception that ends the loop
Collect(acc, one) ==
    [error |-> one.error,
     data |-> IF one.error = "none" THEN Append(acc.data, one.value) ELSE acc.data,
     encoding |-> one.encoding]

RECURSIVE unpack_fields(_, _, _, _)
\* the loop of unpack_record from field k on
unpack_fields(rawdata, fields, k, acc) ==
    IF k > Len(fields) \/ acc.error # "none" THEN acc
    ELSE unpack_fields(rawdata, fields, k + 1,
           Collect(acc,
                   unpack_field(PySlice(rawdata, fields[k].npos,
                                        fields[k].npos + fields[k].nlng),
                                fields[k].ntype,
                                [i \in 1..Len(fields[k].nform) |-> lower(fields[k].nform[i])],
                                acc.encoding)))

unpack_record(rawdata, fields, encoding) ==
    unpack_fields(rawdata, fields, 1, [error |-> "none", data |-> <<>>, encoding |-> encoding])

(***************************************************************************)
(* The program state                                                       *)
(***************************************************************************)
VARIABLES
    infile,     \* the input file: the sequence of byte strings read(80) returns
    pos,        \* how many of them have been read
    state,      \* xpt_to_csv's state
    document,   \* xpt_to_csv's document
    csvout,     \* the rows written to the CSV writer, in order
    DOCUMENT,   \* the module-level DOCUMENT, shared by every call of xpt_to_csv
    error,      \* the exception that ended the call, "none" while there is none
    debug,      \* __debug__: FALSE when Python runs with -O/-OO (asserts stripped)
    run,        \* which call of xpt_to_csv on this input this is
    outputs,    \* history: what the earlier calls wrote and how they ended
    trace,      \* history: one entry per loop iteration of this call: the state
                \* before (from) and after (to), the exception, whether read(80)
                \* was empty (eof), the length of the record, the number of
                \* rows written, and real_version and the encoding before
    rawdatum,   \* the bytes handed to a decoder that is called on its own
    datum       \* that call and what it returned, [op |-> "none"] before it

vars == <<infile, pos, state, document, csvout, DOCUMENT, error, debug, run, outputs, trace,
          rawdatum, datum>>

States ==
    <<"awaiting_library_header", "awaiting_real_header", "awaiting_mtime_header",
      "awaiting_member_header", "awaiting_member_descriptor", "awaiting_member_data",
      "awaiting_second_header", "awaiting_namestr_header", "awaiting_namestr_records",
      "awaiting_observation_records">>

NewDocument ==
    [members |-> <<>>, sas_version |-> <<>>, real_version |-> 0, os |-> <<>>,
     created |-> <<>>, modified |-> <<>>]

\* what a state handler does: the state it returns (or the exception it raises),
\* the document it leaves, the rows it writes, DOCUMENT['encoding'] afterwards,
\* and, for the history, the real_version of each attempt of get_member_data
\* and the observation that get_observation_records unpacked
Return(next, doc) ==
    [error |-> "none", state |-> next, document |-> doc, rows |-> <<>>,
     encoding |-> DOCUMENT.encoding, tried |-> <<>>, raw |-> <<>>]
Raise(exception, doc) ==
    [error |-> exception, state |-> state, document |-> doc, rows |-> <<>>,
     encoding |-> DOCUMENT.encoding, tried |-> <<>>, raw |-> <<>>]

text(field) == decode(field, "utf8")

(***************************************************************************)
(* The state handlers                                                      *)
(***************************************************************************)
get_library_header(record) ==
    IF ~LIBRARY_HEADER(record) THEN Raise("ValueError", document)
    ELSE Return("awaiting_real_header", document)

get_real_header(record) ==
    LET g1 == text(rstrip(Slice(record, 0, 8), Whitespace))
        g2 == text(rstrip(Slice(record, 8, 16), Whitespace))
        g4 == text(rstrip(Slice(record, 24, 32), Whitespace))
        g5 == text(rstrip(Slice(record, 32, 40), {NUL, SP}))
        g6 == decode_then_datetime(Slice(record, 64, 80))
        d1 == [document EXCEPT !.sas_version = g4.text, !.real_version = 8]
        d2 == [d1 EXCEPT !.os = g5.text]
        d3 == [d2 EXCEPT !.created = g6.value]
    IN  IF ~REAL_HEADER(record) THEN Raise("ValueError", document)
        ELSE IF debug /\ g1.error # "none" THEN Raise(g1.error, document)
        ELSE IF debug /\ g1.text # SAS THEN Raise("AssertionError", document)
        ELSE IF debug /\ g2.error # "none" THEN Raise(g2.error, document)
        ELSE IF debug /\ g2.text # SAS THEN Raise("AssertionError", document)
        ELSE IF g4.error # "none" THEN Raise(g4.error, document)
        ELSE IF g5.error # "none" THEN Raise(g5.error, d1)
        ELSE IF g6.error # "none" THEN Raise(g6.error, d2)
        ELSE IF debug /\ (d3.sas_version = <<>> \/ d3.os = <<>>)
        THEN Raise("AssertionError", d3)
        ELSE Return("awaiting_mtime_header", d3)

get_mtime_header(record) ==
    LET modified == decode_then_datetime(rstrip(record, Whitespace))
    IN  IF modified.error # "none" THEN Raise(modified.error, document)
        ELSE Return("awaiting_member_header", [document EXCEPT !.modified = modified.value])

get_member_header(record) ==
    IF ~MEMBER_HEADER(record) THEN Raise("ValueError", document)
    ELSE Return("awaiting_member_descriptor", document)

\* a get_descriptor that accepts every record
get_descriptor_lenient(record) == Return("awaiting_member_data", document)

get_descriptor(record) ==
    IF ~DESCRIPTOR_HEADER(record) THEN Raise("ValueError", document)
    ELSE Return("awaiting_member_data", document)

NewMember(dataset_name) ==
    [dataset_name |-> dataset_name, namestrings |-> <<>>, names |-> <<>>,
     observations |-> <<>>, data |-> <<>>, sas_version |-> <<>>, os |-> <<>>,
     created |-> <<>>, modified |-> <<>>, dataset_label |-> <<>>,
     dataset_type |-> <<>>, recordlength |-> 0]

\* document with its last member replaced
WithMember(doc, member) ==
    [doc EXCEPT !.members = [doc.members EXCEPT ![Len(doc.members)] = member]]

LastMember(doc) == doc.members[Len(doc.members)]

RECURSIVE member_data_same(_, _, _)
\* get_member_data_same(record, attempt) on document doc
member_data_same(doc, record, attempt) ==
    LET v == doc.real_version
        six == (v = 6)
        g1 == text(rstrip(Slice(record, 0, 8), Whitespace))
        g2 == text(rstrip(IF six THEN Slice(record, 8, 16) ELSE Slice(record, 8, 40),
                          Whitespace))
        g4 == text(rstrip(IF six THEN Slice(record, 24, 32) ELSE Slice(record, 48, 56),
                          Whitespace))
        g5 == text(rstrip(IF six THEN Slice(record, 32, 40) ELSE Slice(record, 56, 64),
                          {NUL, SP}))
        g6 == decode_then_datetime(Slice(record, 64, 80))
        d0 == [doc EXCEPT !.members = Append(doc.members, NewMember(g2.text))]
        d1 == WithMember(d0, [LastMember(d0) EXCEPT !.sas_version = g4.text])
        d2 == WithMember(d1, [LastMember(d1) EXCEPT !.os = g5.text])
        d3 == WithMember(d2, [LastMember(d2) EXCEPT !.created = g6.value])
        raise(e, d) == [Raise(e, d) EXCEPT !.tried = <<v>>]
    IN  IF attempt > 2 THEN Raise("ValueError", doc)
        ELSE IF ~(IF six THEN REAL_MEMBER_HEADER_6(record) ELSE REAL_MEMBER_HEADER_8(record))
        THEN raise("ValueError", doc)
        ELSE IF debug /\ g1.error # "none" THEN raise(g1.error, doc)
        ELSE IF debug /\ g1.text # SAS THEN raise("AssertionError", doc)
        ELSE IF g2.error # "none" THEN raise(g2.error, doc)
        ELSE IF g4.error # "none" THEN raise(g4.error, d0)
        ELSE IF g5.error # "none" THEN raise(g5.error, d1)
        ELSE IF g6.error # "none" THEN raise(g6.error, d2)
        ELSE IF g4.text = <<>> \/ g5.text = <<>>
        THEN LET again == member_data_same(d3, record, attempt + 1)
             IN  [again EXCEPT !.tried = <<v>> \o again.tried]
        ELSE [Return("awaiting_second_header", d3) EXCEPT !.tried = <<v>>]

RECURSIVE member_data(_, _, _)
\* get_member_data(record, attempt) on document doc
member_data(doc, record, attempt) ==
    LET v == doc.real_version
        six == (v = 6)
        g1 == text(rstrip(Slice(record, 0, 8), Whitespace))
        g2 == text(rstrip(IF six THEN Slice(record, 8, 16) ELSE Slice(record, 8, 40),
                          Whitespace))
        g4 == text(rstrip(IF six THEN Slice(record, 24, 32) ELSE Slice(record, 48, 56),
                          Whitespace))
        g5 == text(rstrip(IF six THEN Slice(record, 32, 40) ELSE Slice(record, 56, 64),
                          {NUL, SP}))
        g6 == decode_then_datetime(Slice(record, 64, 80))
        d0 == [doc EXCEPT !.members = Append(doc.members, NewMember(g2.text))]
        d1 == WithMember(d0, [LastMember(d0) EXCEPT !.sas_version = g4.text])
        d2 == WithMember(d1, [LastMember(d1) EXCEPT !.os = g5.text])
        d3 == WithMember(d2, [LastMember(d2) EXCEPT !.created = g6.value])
        raise(e, d) == [Raise(e, d) EXCEPT !.tried = <<v>>]
    IN  IF attempt > 2 THEN Raise("ValueError", doc)
        ELSE IF ~(IF six THEN REAL_MEMBER_HEADER_6(record) ELSE REAL_MEMBER_HEADER_8(record))
        THEN raise("ValueError", doc)
        ELSE IF debug /\ g1.error # "none" THEN raise(g1.error, doc)
        ELSE IF debug /\ g1.text # SAS THEN raise("AssertionError", doc)
        ELSE IF g2.error # "none" THEN raise(g2.error, doc)
        ELSE IF g4.error # "none" THEN raise(g4.error, d0)
        ELSE IF g5.error # "none" THEN raise(g5.error, d1)
        ELSE IF g6.error # "none" THEN raise(g6.error, d2)
        ELSE IF g4.text = <<>> \/ g5.text = <<>>
        THEN \* assume wrong "real" version, and switch
             LET again == member_data([d3 EXCEPT !.real_version = IF v = 6 THEN 8 ELSE 6],
                                      record, attempt + 1)
             IN  [again EXCEPT !.tried = <<v>> \o again.tried]
        ELSE [Return("awaiting_second_header", d3) EXCEPT !.tried = <<v>>]

get_member_data(record) == member_data(document, record, 1)

get_second_header(record) ==
    LET member == LastMember(document)
        g1 == decode_then_datetime(Slice(record, 0, 16))
        g2 == text(rstrip(Slice(record, 32, 72), Whitespace))
        g3 == text(rstrip(Slice(record, 72, 80), Whitespace))
        m1 == [member EXCEPT !.modified = g1.value]
        m2 == [m1 EXCEPT !.dataset_label = g2.text]
        m3 == [m2 EXCEPT !.dataset_type = g3.text]
    IN  IF ~REAL_MEMBER_HEADER2(record) THEN Raise("ValueError", document)
        ELSE IF g1.error # "none" THEN Raise(g1.error, document)
        ELSE IF g2.error # "none" THEN Raise(g2.error, WithMember(document, m1))
        ELSE IF g3.error # "none" THEN Raise(g3.error, WithMember(document, m2))
        ELSE [Return("awaiting_namestr_header", WithMember(document, m3)) EXCEPT
                \* write out a header for the dataset
                !.rows = << [kind |-> "header",
                             row |-> << <<m3.dataset_name, m3.dataset_label>>,
                                        <<"created", m3.created>>,
                                        <<"modified", m3.modified>> >>] >>]

get_namestr_header(record) ==
    IF NAMESTR_HEADER(record) = <<>> THEN Raise("ValueError", document)
    ELSE Return("awaiting_namestr_records", document)

\* member['names'].append(unpack_name(...)), or the exception that ends the loop
CollectName(acc, name) ==
    [error |-> name.error,
     names |-> IF name.error = "none" THEN Append(acc.names, name.value) ELSE acc.names]

RECURSIVE unpack_names_padded(_, _, _)
\* a loop that unpacks the padding after the last namestr as one more namestr
unpack_names_padded(namestrings, index, acc) ==
    IF index >= Len(namestrings) \/ acc.error # "none" THEN acc
    ELSE IF Len(PySlice(namestrings, index, index + NamestrLen)) < NamestrLen
    THEN unpack_names_padded(namestrings \o Rep(NUL, index + NamestrLen - Len(namestrings)),
                             index, acc)
    ELSE IF ~NAMESTR(PySlice(namestrings, index, index + NamestrLen))
    THEN [acc EXCEPT !.error = "ValueError"]
    ELSE unpack_names_padded(namestrings, index + NamestrLen,
           CollectName(acc,
                       unpack_name(groupdict(PySlice(namestrings, index,
                                                     index + NamestrLen)))))

RECURSIVE unpack_names(_, _, _)
\* the loop over member['namestrings'] in steps of 140, from offset index
unpack_names(namestrings, index, acc) ==
    IF index >= Len(namestrings) \/ acc.error # "none" THEN acc
    ELSE IF Len(PySlice(namestrings, index, index + NamestrLen)) < NamestrLen
    THEN unpack_names(namestrings, index + NamestrLen, acc)   \* discarding padding
    ELSE IF ~NAMESTR(PySlice(namestrings, index, index + NamestrLen))
    THEN [acc EXCEPT !.error = "ValueError"]
    ELSE unpack_names(namestrings, index + NamestrLen,
           CollectName(acc,
                       unpack_name(groupdict(PySlice(namestrings, index,
                                                     index + NamestrLen)))))

\* a namestr_done that writes the labels before the names
namestr_done_swapped(member, unpacked) ==
    IF unpacked.error # "none" THEN Raise(unpacked.error, WithMember(document, member))
    ELSE [(IF member.names = <<>>
           THEN Raise("IndexError", WithMember(document, member))   \* names[-1]
           ELSE Return("awaiting_observation_records",
                       WithMember(document,
                                  [member EXCEPT !.recordlength =
                                      member.names[Len(member.names)].npos
                                      + member.names[Len(member.names)].nlng])))
          EXCEPT
            \* write out column headers, long and short form
            !.rows = << [kind |-> "labels",
                         row |-> [i \in 1..Len(member.names) |-> member.names[i].nlabel]],
                        [kind |-> "names",
                         row |-> [i \in 1..Len(member.names) |-> member.names[i].nname]] >>]

\* get_namestr_records once the OBSERVATION header is met and the loop is over
namestr_done(member, unpacked) ==
    IF unpacked.error # "none" THEN Raise(unpacked.error, WithMember(document, member))
    ELSE [(IF member.names = <<>>
           THEN Raise("IndexError", WithMember(document, member))   \* names[-1]
           ELSE Return("awaiting_observation_records",
                       WithMember(document,
                                  [member EXCEPT !.recordlength =
                                      member.names[Len(member.names)].npos
                                      + member.names[Len(member.names)].nlng])))
          EXCEPT
            \* write out column headers, short and long form
            !.rows = << [kind |-> "names",
                         row |-> [i \in 1..Len(member.names) |-> member.names[i].nname]],
                        [kind |-> "labels",
                         row |-> [i \in 1..Len(member.names) |-> member.names[i].nlabel]] >>]

\* the member with the names the loop appended
WithNames(member, unpacked) ==
    namestr_done([member EXCEPT !.names = member.names \o unpacked.names], unpacked)

get_namestr_records(record) ==
    IF ~OBSERVATION_HEADER(record)
    THEN Return("awaiting_namestr_records",
                WithMember(document,
                           [LastMember(document) EXCEPT
                              !.namestrings = LastMember(document).namestrings \o record]))
    \* now process each namestring
    ELSE WithNames(LastMember(document),
                   unpack_names(LastMember(document).namestrings, 0,
                                [error |-> "none", names |-> <<>>]))

\* an unpacking that writes the row and leaves the observation in the buffer
observation_unpacked_kept(member, observations, data) ==
    [Return("awaiting_observation_records",
            WithMember(document, [member EXCEPT !.observations = observations]))
     EXCEPT !.rows = << [kind |-> "data", row |-> data.data] >>,
            !.encoding = data.encoding,
            !.raw = PySlice(observations, 0, member.recordlength)]

\* the branch of get_observation_records that unpacks one observation
observation_unpacked(member, observations, data) ==
    IF data.error # "none"
    THEN [Raise(data.error, WithMember(document, [member EXCEPT !.observations = observations]))
          EXCEPT !.encoding = data.encoding,
                 !.raw = PySlice(observations, 0, member.recordlength)]
    ELSE [Return("awaiting_observation_records",
                 WithMember(document,
                            [member EXCEPT !.observations =
                                PySlice(observations, member.recordlength,
                                        Len(observations))]))
          EXCEPT !.rows = << [kind |-> "data", row |-> data.data] >>,
                 !.encoding = data.encoding,
                 !.raw = PySlice(observations, 0, member.recordlength)]

\* get_observation_records once member['observations'] += record is done
observation_appended(member, observations) ==
    IF Len(observations) > member.recordlength
    THEN observation_unpacked(member, observations,
                              unpack_record(PySlice(observations, 0, member.recordlength),
                                            member.names, DOCUMENT.encoding))
    ELSE Return("awaiting_observation_records",
                WithMember(document, [member EXCEPT !.observations = observations]))

\* a get_observation_records that goes back to awaiting_member_header
get_observation_records_back(record) ==
    IF MEMBER_HEADER(record) THEN Return("awaiting_member_header", document)
    ELSE observation_appended(LastMember(document),
                              LastMember(document).observations \o record)

get_observation_records(record) ==
    IF MEMBER_HEADER(record) THEN get_member_header(record)
    ELSE observation_appended(LastMember(document),
                              LastMember(document).observations \o record)

(***************************************************************************)
(* Input files.  A file is built from member descriptions                  *)
(*   [version, schema, rows, count, pad]                                   *)
(* version: the layout of the real member header (6, 8, or 0 for a header  *)
(* whose sas_version and os are blank in both layouts); schema: the        *)
(* columns; rows: one value variant per observation; count: the number the *)
(* NAMESTR header declares; pad: extra NUL records after the namestrs.     *)
(***************************************************************************)
RecordLen == 80

pad(s, n) == s \o Rep(SP, n - Len(s))
pack_h(n) == <<n \div 256, n % 256>>
pack_l(n) == <<n \div 16777216, (n \div 65536) % 256, (n \div 256) % 256, n % 256>>

RECURSIVE Concat(_)
Concat(ss) == IF ss = <<>> THEN <<>> ELSE Head(ss) \o Concat(Tail(ss))

\* the byte string cut into 80-byte records, the last one blank-padded
Records(bytes) ==
    LET n == (Len(bytes) + RecordLen - 1) \div RecordLen
        padded == pad(bytes, n * RecordLen)
    IN  [k \in 1..n |-> SubSeq(padded, RecordLen * (k - 1) + 1, RecordLen * k)]

Header(tag7) ==  \* "HEADER RECORD*******" tag7 " HEADER RECORD!!!!!!!"
    HEADER_RECORD_STARS \o pad(tag7, 8) \o HEADER_RECORD_BANGS

SASDATE == <<48, 49, 74, 65, 78, 50, 48, 58, 48, 48, 58, 48, 48, 58, 48, 48>>  \* "01JAN20:00:00:00"
SASVER == <<57, 46, 52>>                                                       \* "9.4"
SASOS == <<88, 54, 52, 95, 49, 48, 80, 82>>                                    \* "X64_10PR"
SASLIB == <<83, 65, 83, 76, 73, 66>>                                           \* "SASLIB"
SASDATA == <<83, 65, 83, 68, 65, 84, 65>>                                      \* "SASDATA"
DSNAME == <<65, 68, 83, 76>>                                                   \* "ADSL"

LibraryRecord == pad(Header(<<76, 73, 66, 82, 65, 82, 89>>) \o Rep(48, 30), RecordLen)
RealRecord(first) ==
    pad(first, 8) \o pad(SAS, 8) \o pad(SASLIB, 8) \o pad(SASVER, 8) \o pad(SASOS, 8)
    \o Rep(SP, 24) \o SASDATE
MtimeRecord == pad(SASDATE, RecordLen)
MemberRecord ==
    pad(Header(<<77, 69, 77, 66, 69, 82>>) \o Rep(48, 16)
        \o <<48, 49, 54, 48, 48, 48, 48, 48, 48, 48, 48, 49, 52, 48>>, RecordLen)
DescriptorRecord == pad(Header(<<68, 83, 67, 82, 80, 84, 82>>) \o Rep(48, 30), RecordLen)
RealMemberRecord(version) ==
    IF version = 8
    THEN pad(SAS, 8) \o pad(DSNAME, 32) \o pad(SASDATA, 8) \o pad(SASVER, 8)
         \o pad(SASOS, 8) \o SASDATE
    ELSE IF version = 6
    THEN pad(SAS, 8) \o pad(DSNAME, 8) \o pad(SASDATA, 8) \o pad(SASVER, 8)
         \o pad(SASOS, 8) \o Rep(SP, 24) \o SASDATE
    ELSE pad(SAS, 8) \o pad(DSNAME, 8) \o pad(SASDATA, 8) \o Rep(SP, 16)
         \o Rep(SP, 24) \o SASDATE
SecondRecord == SASDATE \o Rep(SP, 16) \o pad(<<108, 97, 98, 101, 108>>, 40) \o pad(<<68, 65, 84, 65>>, 8)
NamestrRecord(count) ==
    pad(Header(<<78, 65, 77, 69, 83, 84, 82>>) \o Rep(48, 6)
        \o <<48, 48, 48 + ((count \div 10) % 10), 48 + (count % 10)>> \o Rep(48, 20), RecordLen)
ObservationRecord == pad(Header(<<79, 66, 83>>) \o Rep(48, 30), RecordLen)
JunkRecord == Rep(88, RecordLen)

Column(ntype, nlng, npos, nname, nform) ==
    [ntype |-> ntype, nlng |-> nlng, npos |-> npos, nname |-> nname, nform |-> nform]

NamestrBytes(col, nvar0) ==
    pack_h(col.ntype) \o pack_h(0) \o pack_h(col.nlng) \o pack_h(nvar0)
    \o pad(col.nname, 8) \o pad(col.nname \o <<32>> \o <<108, 97, 98, 101, 108>>, 40)
    \o pad(col.nform, 8) \o pack_h(0) \o pack_h(0) \o pack_h(0) \o <<0, 0>>
    \o Rep(SP, 8) \o pack_h(0) \o pack_h(0) \o pack_l(col.npos)
    \o pad(col.nname, 32) \o pack_h(0) \o Rep(NUL, 18)

Schemas ==
    << \* one numeric column: recordlength 8
       << Column(1, 8, 0, <<88>>, <<>>) >>,
       \* one character column as wide as a physical record: recordlength 80
       << Column(2, 80, 0, <<67>>, <<>>) >>,
       \* recordlength 100
       << Column(2, 72, 0, <<67>>, <<>>), Column(1, 8, 72, <<88>>, <<>>),
          Column(2, 20, 80, <<69>>, <<>>) >>,
       \* four columns (4 * 140 = 7 * 80): recordlength 32
       << Column(1, 8, 0, <<88>>, <<>>), Column(1, 8, 8, <<68>>, <<68, 65, 84, 69>>),
          Column(1, 8, 16, <<84>>, <<84, 73, 77, 69>>), Column(2, 8, 24, <<67>>, <<>>) >> >>

RowVariants == 1..3

\* the bytes of one column of an observation: variant 1 is "A" / 1.0,
\* variant 2 is U+00E9 in UTF-8 / the missing value, variant 3 is U+00E9 in
\* Latin-1 (not valid UTF-8) / 0.0
Cell(col, variant) ==
    IF col.ntype = 2
    THEN pad(IF variant = 1 THEN <<65>> ELSE IF variant = 2 THEN <<195, 169>> ELSE <<233>>,
             col.nlng)
    ELSE IF variant = 1 THEN <<65, 16, 0, 0, 0, 0, 0, 0>>
    ELSE IF variant = 2 THEN MISSING
    ELSE Rep(NUL, 8)

RowBytes(schema, variant) == Concat([k \in 1..Len(schema) |-> Cell(schema[k], variant)])

MemberSpec(version, schema, rows, count, padding) ==
    [version |-> version, schema |-> schema, rows |-> rows, count |-> count, pad |-> padding]

MemberRecords(m) ==
    LET cols == Schemas[m.schema]
    IN  <<MemberRecord, DescriptorRecord, RealMemberRecord(m.version), SecondRecord,
          NamestrRecord(m.count)>>
        \o Records(Concat([k \in 1..Len(cols) |-> NamestrBytes(cols[k], k)]))
        \o [k \in 1..m.pad |-> Rep(NUL, RecordLen)]
        \o <<ObservationRecord>>
        \o Records(Concat([k \in 1..Len(m.rows) |-> RowBytes(cols, m.rows[k])]))

File(first, members) ==
    <<LibraryRecord, RealRecord(first), MtimeRecord>>
    \o Concat([k \in 1..Len(members) |-> MemberRecords(members[k])])

MaxEncObs == 3
MaxObs == 11
MaxMembers == 2
MaxPad == 2
MaxRuns == 2

SeqsUpTo(S, n) == UNION {[1..k -> S] : k \in 0..n}

Plain(schema, n) == MemberSpec(8, schema, Rep(1, n), Len(Schemas[schema]), 0)

\* one member with a character column, every sequence of value variants
EncFiles == {File(SAS, <<MemberSpec(8, 2, rows, 1, 0)>>) : rows \in SeqsUpTo(RowVariants, MaxEncObs)}
\* one member of each schema, with 0..MaxObs observations
LenFiles == {File(SAS, <<Plain(schema, n)>>) : schema \in 1..Len(Schemas), n \in 0..MaxObs}
\* members whose real member headers are in either layout, or in neither
VersionFiles ==
    {File(SAS, [k \in 1..Len(vs) |-> MemberSpec(vs[k], 1, <<1>>, 1, 0)]) :
        vs \in SeqsUpTo({6, 8, 0}, MaxMembers) \ {<<>>}}
\* a NAMESTR header that declares another count than the records hold, and
\* NUL records after the namestrs
NamestrFiles ==
    {File(SAS, <<MemberSpec(8, schema, <<1>>, count, padding)>>) :
        schema \in 1..Len(Schemas), count \in {0, 9}, padding \in 0..MaxPad}
\* a first field of the real header that is not "SAS"
AssertFiles == {File(<<88>>, <<Plain(1, 1)>>)}

TwoMembers == File(SAS, <<Plain(1, 1), Plain(1, 1)>>)
\* the file cut after p records
Truncated == {SubSeq(TwoMembers, 1, p) : p \in 0..(Len(TwoMembers) - 1)}
\* the file cut in the middle of record p + 1 (or followed by stray blanks)
ShortReads ==
    {SubSeq(TwoMembers, 1, p)
       \o << SubSeq(IF p < Len(TwoMembers) THEN TwoMembers[p + 1] ELSE Rep(SP, RecordLen), 1, r) >> :
        p \in 0..Len(TwoMembers), r \in {1, RecordLen - 1}}
\* record p replaced by 80 bytes that match no header
Corrupted == {[TwoMembers EXCEPT ![p] = JunkRecord] : p \in 1..Len(TwoMembers)}

Files == EncFiles \cup LenFiles \cup VersionFiles \cup NamestrFiles \cup AssertFiles
         \cup Truncated \cup ShortReads \cup Corrupted

(***************************************************************************)
(* xpt_to_csv: the loop `while state != 'complete'`, one action per        *)
(* iteration                                                               *)
(***************************************************************************)
Init ==
    /\ infile \in Files
    /\ pos = 0
    /\ state = "awaiting_library_header"
    /\ document = NewDocument
    /\ csvout = <<>>
    /\ DOCUMENT = [encoding |-> "utf8"]
    /\ error = "none"
    /\ debug \in BOOLEAN
    /\ run = 1
    /\ outputs = <<>>
    /\ trace = <<>>
    /\ rawdatum = <<>>
    /\ datum = [op |-> "none"]

\* history: the number of member headers this call has accepted
MembersSeen ==
    Cardinality({i \in 1..Len(trace) :
                    trace[i].error = "none" /\ trace[i].to = "awaiting_member_descriptor"})

\* what infile.read(80) returns when it is not empty
read == infile[pos + 1]

\* record = infile.read(80) is not empty; state = dispatch[state](record),
\* r being what the handler of state st does with the record
Dispatch(st, r) ==
    /\ state = st
    /\ error = "none"
    /\ pos < Len(infile)
    /\ pos' = pos + 1
    /\ state' = r.state
    /\ document' = r.document
    /\ csvout' = csvout \o [k \in 1..Len(r.rows) |->
                              [kind |-> r.rows[k].kind, row |-> r.rows[k].row,
                               member |-> MembersSeen]]
    /\ DOCUMENT' = [DOCUMENT EXCEPT !.encoding = r.encoding]
    /\ error' = r.error
    /\ trace' = Append(trace, [from |-> state, to |-> r.state, error |-> r.error,
                               eof |-> FALSE, len |-> Len(read),
                               rows |-> Len(r.rows), tried |-> r.tried,
                               raw |-> r.raw,
                               real_version |-> document.real_version,
                               encoding |-> DOCUMENT.encoding])
    /\ UNCHANGED <<infile, debug, run, outputs, rawdatum, datum>>

AwaitingLibraryHeader == Dispatch("awaiting_library_header", get_library_header(read))
AwaitingRealHeader == Dispatch("awaiting_real_header", get_real_header(read))
AwaitingMtimeHeader == Dispatch("awaiting_mtime_header", get_mtime_header(read))
AwaitingMemberHeader == Dispatch("awaiting_member_header", get_member_header(read))
AwaitingMemberDescriptor == Dispatch("awaiting_member_descriptor", get_descriptor(read))
AwaitingMemberData == Dispatch("awaiting_member_data", get_member_data(read))
AwaitingSecondHeader == Dispatch("awaiting_second_header", get_second_header(read))
AwaitingNamestrHeader == Dispatch("awaiting_namestr_header", get_namestr_header(read))
AwaitingNamestrRecords == Dispatch("awaiting_namestr_records", get_namestr_records(read))
AwaitingObservationRecords ==
    Dispatch("awaiting_observation_records", get_observation_records(read))

\* an end of input that sends the parser back to wait for a member header
EndOfFile_Waiting ==
    /\ state \notin {"complete", "awaiting_member_header"}
    /\ error = "none"
    /\ pos = Len(infile)
    /\ state' = "awaiting_member_header"
    /\ trace' = Append(trace, [from |-> state, to |-> "awaiting_member_header",
                               error |-> "none", eof |-> TRUE, len |-> 0, rows |-> 0,
                               tried |-> <<>>, raw |-> <<>>,
                               real_version |-> document.real_version,
                               encoding |-> DOCUMENT.encoding])
    /\ UNCHANGED <<infile, pos, document, csvout, DOCUMENT, error, debug, run, outputs,
                   rawdatum, datum>>

\* an end of input that raises ShortRead between a member header and the
\* observations
EndOfFile_ShortRead ==
    /\ state # "complete"
    /\ error = "none"
    /\ pos = Len(infile)
    /\ LET fatal == state \in {"awaiting_member_descriptor", "awaiting_member_data",
                               "awaiting_second_header", "awaiting_namestr_header",
                               "awaiting_namestr_records"}
       IN  /\ state' = IF fatal THEN state ELSE "complete"
           /\ error' = IF fatal THEN "ShortRead" ELSE "none"
           /\ trace' = Append(trace, [from |-> state, to |-> state', error |-> error',
                                      eof |-> TRUE, len |-> 0, rows |-> 0, tried |-> <<>>,
                                      raw |-> <<>>, real_version |-> document.real_version,
                                      encoding |-> DOCUMENT.encoding])
    /\ UNCHANGED <<infile, pos, document, csvout, DOCUMENT, debug, run, outputs, rawdatum, datum>>

\* if not record: state = 'complete'
EndOfFile ==
    /\ state # "complete"
    /\ error = "none"
    /\ pos = Len(infile)
    /\ state' = "complete"
    /\ trace' = Append(trace, [from |-> state, to |-> "complete", error |-> "none",
                               eof |-> TRUE, len |-> 0, rows |-> 0, tried |-> <<>>,
                               raw |-> <<>>, real_version |-> document.real_version,
                               encoding |-> DOCUMENT.encoding])
    /\ UNCHANGED <<infile, pos, document, csvout, DOCUMENT, error, debug, run, outputs,
                   rawdatum, datum>>

Finished == state = "complete" \/ error # "none"

\* the caller converts the same file again in the same process
Rerun ==
    /\ Finished
    /\ run < MaxRuns
    /\ run' = run + 1
    /\ outputs' = Append(outputs, [csvout |-> csvout, error |-> error])
    /\ pos' = 0
    /\ state' = "awaiting_library_header"
    /\ document' = NewDocument
    /\ csvout' = <<>>
    /\ error' = "none"
    /\ trace' = <<>>
    /\ UNCHANGED <<infile, DOCUMENT, debug, rawdatum, datum>>

Next ==
    \/ AwaitingLibraryHeader
    \/ AwaitingRealHeader
    \/ AwaitingMtimeHeader
    \/ AwaitingMemberHeader
    \/ AwaitingMemberDescriptor
    \/ AwaitingMemberData
    \/ AwaitingSecondHeader
    \/ AwaitingNamestrHeader
    \/ AwaitingNamestrRecords
    \/ AwaitingObservationRecords
    \/ EndOfFile
    \/ Rerun

Spec == Init /\ [][Next]_vars

\* while state != 'complete': as long as the loop has neither completed nor
\* raised, it goes on to its next iteration, which reads a record or finds
\* the end of the input; calling again is up to the caller
FairSpec ==
    Spec /\ WF_<<pos, state>>(/\ ~Finished
                              /\ \/ pos < Len(infile) /\ pos' = pos + 1
                                    /\ state' \in {States[i] : i \in 1..Len(States)}
                                 \/ pos = Len(infile) /\ pos' = pos /\ state' = "complete")

(***************************************************************************)
(* The decoders called on their own: ibm_to_double, decode_date,           *)
(* decode_time, decode_datetime on 8 bytes, and unpack_record on an        *)
(* observation of one 8-byte column.                                       *)
(***************************************************************************)
\* rawdatum: a first byte (zero, the missing values . A Z _, sign and exponent
\* bytes) and seven more bytes (zero, the test vectors of the source, the
\* doctests of the format decoders, and the extremes)
Payloads ==
    {<<b>> \o t :
        b \in {0, 46, 65, 90, 95, 1, 64, 67, 68, 69, 72, 127, 128, 193, 255},
        t \in {<<0, 0, 0, 0, 0, 0, 0>>, <<16, 0, 0, 0, 0, 0, 0>>,
               <<32, 0, 0, 0, 0, 0, 0>>, <<48, 0, 0, 0, 0, 0, 0>>,
               <<63, 255, 255, 255, 255, 255, 255>>,
               <<86, 23, 0, 0, 0, 0, 0>>, <<200, 220, 0, 0, 0, 0, 0>>,
               <<113, 128, 27, 92, 0, 0, 0>>, <<16, 21, 128, 0, 0, 0, 0>>,
               <<63, 192, 0, 0, 0, 0, 0>>, <<0, 0, 0, 0, 0, 0, 1>>,
               <<255, 255, 255, 255, 255, 255, 255>>, <<8, 0, 0, 0, 0, 0, 16>>}}

\* nform of the column: none, DATE, date, TIME, DATETIME, BEST, $CHAR
Forms ==
    {<<>>, <<68, 65, 84, 69>>, <<100, 97, 116, 101>>, <<84, 73, 77, 69>>,
     <<68, 65, 84, 69, 84, 73, 77, 69>>, <<66, 69, 83, 84>>, <<36, 67, 72, 65, 82>>}

\* the namestr of a column that is the whole 8-byte observation
Field(ntype, nform) == [ntype |-> ntype, nlng |-> 8, npos |-> 0, nform |-> nform]

CodecInit ==
    /\ infile = <<>>
    /\ pos = 0
    /\ state = "awaiting_library_header"
    /\ document = NewDocument
    /\ csvout = <<>>
    /\ DOCUMENT = [encoding |-> "utf8"]
    /\ error = "none"
    /\ debug = FALSE
    /\ run = 1
    /\ outputs = <<>>
    /\ trace = <<>>
    /\ rawdatum \in Payloads
    /\ datum = [op |-> "none"]

\* the call op(rawdatum, args) returns r
Call(op, args, r) ==
    /\ datum.op = "none"
    /\ datum' = [op |-> op, args |-> args, r |-> r]
    /\ UNCHANGED <<infile, pos, state, document, csvout, DOCUMENT, error, debug, run,
                   outputs, trace, rawdatum>>

IbmToDouble ==
    \E pack_output \in BOOLEAN :
        Call("ibm_to_double", <<pack_output>>, ibm_to_double(rawdatum, pack_output))
DecodeDate == Call("decode_date", <<>>, decode_date(rawdatum))
DecodeTime == Call("decode_time", <<>>, decode_time(rawdatum))
DecodeDatetime == Call("decode_datetime", <<>>, decode_datetime(rawdatum))
UnpackRecord ==
    \E ntype \in {1, 2}, nform \in Forms :
        Call("unpack_record", <<ntype, nform>>,
             unpack_record(rawdatum, <<Field(ntype, nform)>>, DOCUMENT.encoding))

CodecNext ==
    \/ IbmToDouble
    \/ DecodeDate
    \/ DecodeTime
    \/ DecodeDatetime
    \/ UnpackRecord

CodecSpec == CodecInit /\ [][CodecNext]_vars

(***************************************************************************)
(* Properties.  The history variables make them state predicates: entry i  *)
(* of trace is the loop iteration that read infile[i] (or found the input  *)
(* exhausted), and every row of csvout carries the handler that wrote it   *)
(* (kind) and the number of member headers accepted before it (member).    *)
(***************************************************************************)
Stepped == trace # <<>>
last == trace[Len(trace)]

DataRows(k) ==
    Cardinality({i \in 1..Len(csvout) : csvout[i].kind = "data" /\ csvout[i].member = k})

\* C1, as stated: when the conversion of a file with one member of n
\* observations (n * recordlength observation bytes before the final pad)
\* completes, the output holds the 3 header rows and exactly n data rows.
\* The code writes at most one row per 80-byte record and only when the
\* buffer is longer than recordlength, so rows are missing.
C1_DataRowsPerMember ==
    (state = "complete" /\ error = "none") =>
        \A schema \in 1..Len(Schemas), n \in 0..MaxObs :
            infile = File(SAS, <<Plain(schema, n)>>) =>
                Len(csvout) = 3 + n /\ DataRows(1) = n

HeaderStates ==
    {"awaiting_library_header", "awaiting_real_header", "awaiting_mtime_header",
     "awaiting_member_header", "awaiting_member_descriptor", "awaiting_member_data",
     "awaiting_second_header", "awaiting_namestr_header"}

Forward ==
    [awaiting_library_header |-> "awaiting_real_header",
     awaiting_real_header |-> "awaiting_mtime_header",
     awaiting_mtime_header |-> "awaiting_member_header",
     awaiting_member_header |-> "awaiting_member_descriptor",
     awaiting_member_descriptor |-> "awaiting_member_data",
     awaiting_member_data |-> "awaiting_second_header",
     awaiting_second_header |-> "awaiting_namestr_header",
     awaiting_namestr_header |-> "awaiting_namestr_records"]

\* the state the table of transitions gives after the record in state from
TableNext(from, record) ==
    IF from \in HeaderStates THEN Forward[from]
    ELSE IF from = "awaiting_namestr_records"
    THEN IF OBSERVATION_HEADER(record) THEN "awaiting_observation_records" ELSE from
    ELSE IF MEMBER_HEADER(record) THEN "awaiting_member_descriptor" ELSE from

\* C2: the parser starts in awaiting_library_header; every accepted record
\* moves it one state forward through the header states; in
\* awaiting_namestr_records it stays until an OBSERVATION header moves it to
\* awaiting_observation_records; there it stays, except that a MEMBER header
\* moves it straight to awaiting_member_descriptor; every iteration that
\* reads a record consumes exactly that one record, and there is no other
\* transition on a record.
C2_TransitionTable ==
    /\ pos = Cardinality({i \in 1..Len(trace) : ~trace[i].eof})
    /\ Stepped => trace[1].from = "awaiting_library_header" /\ state = last.to
    /\ \A i \in 1..Len(trace) :
        /\ i > 1 => trace[i].from = trace[i - 1].to
        /\ ~trace[i].eof =>
            /\ i <= pos
            /\ trace[i].from \in HeaderStates
                    \cup {"awaiting_namestr_records", "awaiting_observation_records"}
            /\ trace[i].to = IF trace[i].error = "none"
                             THEN TableNext(trace[i].from, infile[i])
                             ELSE trace[i].from

\* a second member header was met among the observations of the first
C2_Witness ==
    \E i \in 1..Len(trace) :
        /\ trace[i].from = "awaiting_observation_records"
        /\ trace[i].to = "awaiting_member_descriptor"
        /\ MEMBER_HEADER(infile[i])

FirstRow(k) == Min({i \in 1..Len(csvout) : csvout[i].member = k})

RowKind(j) ==
    IF j = 1 THEN "header" ELSE IF j = 2 THEN "names" ELSE IF j = 3 THEN "labels" ELSE "data"

\* C3: the rows of each member are, in this order, its header row, its names
\* row, its labels row, then its data rows; the members follow each other in
\* file order and no row of a member precedes the last row of the member
\* before it.
C3_RowOrder ==
    \A i \in 1..Len(csvout) :
        /\ csvout[i].member >= 1
        /\ i > 1 => csvout[i].member >= csvout[i - 1].member
        /\ csvout[i].kind = RowKind(i - FirstRow(csvout[i].member) + 1)

\* a data row of the second member has been written after those of the first
C3_Witness ==
    \E i, j \in 1..Len(csvout) :
        /\ i < j
        /\ csvout[i].member = 1 /\ csvout[i].kind = "data"
        /\ csvout[j].member = 2 /\ csvout[j].kind = "data"

\* C4, as stated: a final read of fewer than 80 bytes is the end of the
\* stream: it ends the conversion cleanly and reaches no handler, so it
\* raises nothing, writes nothing and leaves the document as it was.  The
\* code hands every non-empty read to the handler of the state.
C4_ShortReadEndsStream ==
    \A i \in 1..Len(trace) :
        (~trace[i].eof /\ trace[i].len < RecordLen) =>
            /\ trace[i].to = "complete"
            /\ trace[i].error = "none"
            /\ trace[i].rows = 0

MidMember ==
    {"awaiting_member_descriptor", "awaiting_member_data", "awaiting_second_header",
     "awaiting_namestr_header", "awaiting_namestr_records"}

\* C5, as stated: the end of the input in one of the states
\* awaiting_member_descriptor .. awaiting_namestr_records is a fatal error.
C5_EndOfInputMidMemberFatal ==
    (Stepped /\ last.eof /\ last.from \in MidMember) => error # "none"

\* C5, amended: the end of the input in one of the states
\* awaiting_member_descriptor .. awaiting_namestr_records ends the conversion
\* like any other end of input: the state becomes complete, nothing is
\* raised, no row is written and no record is left unread.
C5_EndOfInputMidMemberClean ==
    (Stepped /\ last.eof /\ last.from \in MidMember) =>
        /\ state = "complete"
        /\ last.to = "complete"
        /\ error = "none"
        /\ last.rows = 0
        /\ pos = Len(infile)

\* the input ended among the namestr records
C5_Witness ==
    /\ Stepped
    /\ last.eof
    /\ last.from = "awaiting_namestr_records"
    /\ state = "complete"

\* whether the real member header has a non-empty sas_version and os when
\* read in the layout of real_version
MemberHeaderFilled(real_version, record) ==
    IF real_version = 6
    THEN /\ REAL_MEMBER_HEADER_6(record)
         /\ rstrip(Slice(record, 24, 32), Whitespace) # <<>>
         /\ rstrip(Slice(record, 32, 40), {NUL, SP}) # <<>>
    ELSE /\ REAL_MEMBER_HEADER_8(record)
         /\ rstrip(Slice(record, 48, 56), Whitespace) # <<>>
         /\ rstrip(Slice(record, 56, 64), {NUL, SP}) # <<>>

\* whether the record satisfies the grammar of the header state
Grammar(from, record) ==
    IF from = "awaiting_library_header" THEN LIBRARY_HEADER(record)
    ELSE IF from = "awaiting_real_header"
    THEN REAL_HEADER(record) /\ decode_then_datetime(Slice(record, 64, 80)).error = "none"
    ELSE IF from = "awaiting_mtime_header"
    THEN decode_then_datetime(rstrip(record, Whitespace)).error = "none"
    ELSE IF from = "awaiting_member_header" THEN MEMBER_HEADER(record)
    ELSE IF from = "awaiting_member_descriptor" THEN DESCRIPTOR_HEADER(record)
    ELSE IF from = "awaiting_member_data"
    THEN /\ MemberHeaderFilled(6, record) \/ MemberHeaderFilled(8, record)
         /\ decode_then_datetime(Slice(record, 64, 80)).error = "none"
    ELSE IF from = "awaiting_second_header"
    THEN REAL_MEMBER_HEADER2(record) /\ decode_then_datetime(Slice(record, 0, 16)).error = "none"
    ELSE NAMESTR_HEADER(record) # <<>>

\* C6: in each of the eight header states a record that does not satisfy the
\* grammar of the state is a fatal error: an exception ends the call, the
\* state is not advanced, no row is written for the record and no later
\* record is read.
C6_MalformedHeaderIsFatal ==
    \A i \in 1..Len(trace) :
        (~trace[i].eof /\ trace[i].from \in HeaderStates
            /\ ~Grammar(trace[i].from, infile[i])) =>
            /\ trace[i].error # "none"
            /\ trace[i].to = trace[i].from
            /\ trace[i].rows = 0
            /\ i = Len(trace)
            /\ pos = i
            /\ state = trace[i].from
            /\ error = trace[i].error

\* a record that is no descriptor header was read in awaiting_member_descriptor
C6_Witness ==
    /\ Stepped
    /\ ~last.eof
    /\ last.from = "awaiting_member_descriptor"
    /\ ~DESCRIPTOR_HEADER(infile[pos])
    /\ error = "ValueError"

Other(real_version) == IF real_version = 6 THEN 8 ELSE 6

\* what every call of get_member_data does, whatever its first real_version
MemberDataAttempts(i) ==
    /\ Len(trace[i].tried) \in {1, 2}
    /\ Len(trace[i].tried) = 2 =>
        /\ trace[i].tried[2] = Other(trace[i].tried[1])
        /\ ~MemberHeaderFilled(trace[i].tried[1], infile[i])
    /\ trace[i].error = "none" =>
        /\ trace[i].to = "awaiting_second_header"
        /\ MemberHeaderFilled(trace[i].tried[Len(trace[i].tried)], infile[i])
    /\ trace[i].error # "none" => trace[i].to = trace[i].from /\ i = Len(trace)

\* C7, as stated: a real member header is parsed at most twice, first with
\* real_version 8 and, if the parsed sas_version or os is empty, once more
\* with real_version 6; a successful attempt leads to
\* awaiting_second_header, and if both fail the record is a fatal error and
\* the state is not advanced.
C7_FirstAttemptIs8 ==
    \A i \in 1..Len(trace) :
        (~trace[i].eof /\ trace[i].from = "awaiting_member_data") =>
            /\ MemberDataAttempts(i)
            /\ trace[i].tried[1] = 8

\* the real_version the document holds when entry i of the history begins:
\* 8 from the real header, or what the last call of get_member_data left
CurrentVersion(i) ==
    IF \E j \in 1..(i - 1) : trace[j].from = "awaiting_member_data"
    THEN trace[Max({j \in 1..(i - 1) : trace[j].from = "awaiting_member_data"})].tried[
            Len(trace[Max({j \in 1..(i - 1) : trace[j].from = "awaiting_member_data"})].tried)]
    ELSE 8

\* C7, amended: a real member header is parsed at most twice, first with the
\* real_version the document holds (8 from the real header, or the version
\* the retry of an earlier member switched to) and, if the parsed
\* sas_version or os is empty, once more with the other version; a
\* successful attempt leads to awaiting_second_header, and if both fail the
\* record is a fatal error and the state is not advanced.
C7_FirstAttemptIsCurrentVersion ==
    \A i \in 1..Len(trace) :
        (~trace[i].eof /\ trace[i].from = "awaiting_member_data") =>
            /\ MemberDataAttempts(i)
            /\ trace[i].tried[1] = trace[i].real_version
            /\ trace[i].tried[1] = CurrentVersion(i)

\* a header in the old layout was accepted at the second attempt
C7_Witness ==
    /\ Stepped
    /\ last.from = "awaiting_member_data"
    /\ last.tried = <<8, 6>>
    /\ state = "awaiting_second_header"

\* C8: when the OBSERVATION header ends the namestr records, the number of
\* variables of the member is the length of the namestr buffer divided by
\* 140, rounded down (a trailing block shorter than 140 bytes is dropped),
\* whatever count the NAMESTR header declared; the names and labels rows
\* have that many columns.
C8_NamesCount ==
    (Stepped /\ ~last.eof /\ last.from = "awaiting_namestr_records"
        /\ OBSERVATION_HEADER(infile[pos]) /\ last.error # "UnicodeDecodeError") =>
        /\ last.error \in {"none", "IndexError"}
        /\ Len(LastMember(document).names)
            = Len(LastMember(document).namestrings) \div NamestrLen
        /\ last.rows = 2
        /\ Len(csvout[Len(csvout)].row) = Len(LastMember(document).namestrings) \div NamestrLen
        /\ Len(csvout[Len(csvout) - 1].row) = Len(LastMember(document).namestrings) \div NamestrLen

\* the NAMESTR header declared 9 variables, the buffer of 160 bytes gave one
C8_Witness ==
    /\ Stepped
    /\ last.from = "awaiting_namestr_records"
    /\ state = "awaiting_observation_records"
    /\ \E i \in 1..Len(trace) :
        /\ trace[i].from = "awaiting_namestr_header"
        /\ NAMESTR_HEADER(infile[i]) = <<48, 48, 48, 57, 48, 48>>
    /\ Len(LastMember(document).namestrings) = 160
    /\ Len(LastMember(document).names) = 1

\* the bytes of character field k of the observation, stripped as
\* decode_string strips them
FieldBytes(observation, field) ==
    rstrip(PySlice(observation, field.npos, field.npos + field.nlng), {NUL, SP})

NotUtf8(bytes) == decode(bytes, "utf8").error # "none"

\* whether field k of the observation is decoded as Latin-1: the encoding
\* was Latin-1 already, or a character field up to k is not valid UTF-8
DecodedAsLatin1(encoding, observation, fields, k) ==
    \/ encoding = "latin1"
    \/ \E j \in 1..k : fields[j].ntype = 2 /\ NotUtf8(FieldBytes(observation, fields[j]))

\* C9: a character field that is not valid UTF-8 does not end the call: the
\* encoding becomes Latin-1 and stays so for the rest of the call, the field
\* and every later character field are decoded as Latin-1, and the rows are
\* still written.
C9_Latin1Fallback ==
    /\ (\E i \in 1..Len(trace) : trace[i].encoding = "latin1") => DOCUMENT.encoding = "latin1"
    /\ (Stepped /\ last.raw # <<>>) =>
        /\ last.error # "UnicodeDecodeError"
        /\ last.error = "none" =>
            /\ last.rows = 1
            /\ \A k \in 1..Len(LastMember(document).names) :
                (/\ LastMember(document).names[k].ntype = 2
                 /\ DecodedAsLatin1(last.encoding, last.raw, LastMember(document).names, k)) =>
                    /\ DOCUMENT.encoding = "latin1"
                    /\ csvout[Len(csvout)].row[k]
                        = Str(EscSub(FieldBytes(last.raw, LastMember(document).names[k]),
                                     1, <<>>))

\* in the first call, after a field that was not valid UTF-8, the bytes C3 A9
\* were written as the two characters they are in Latin-1
C9_Witness ==
    /\ run = 1
    /\ Stepped
    /\ last.raw # <<>>
    /\ last.encoding = "latin1"
    /\ last.rows = 1
    /\ csvout[Len(csvout)].row = << Str(<<195, 169>>) >>

\* C10, as stated: a second conversion of the same input in the same process
\* ends as the first did and writes the same rows.  DOCUMENT['encoding'] is
\* not reset between the calls, so the second call starts in Latin-1 when
\* the first fell back to it.
C10_SameInputSameOutput ==
    (run >= 2 /\ Finished) =>
        /\ csvout = outputs[run - 1].csvout
        /\ error = outputs[run - 1].error


(***************************************************************************)
(* The numeric codec, checked under CodecSpec.  The reference encoding is   *)
(* computed from the value (-1)^s * 16^(E-64) * M / 2^56 itself: M with     *)
(* bit length L is 1.f * 2^(L-1), so the value is 1.f * 2^(4(E-64)-56+L-1). *)
(***************************************************************************)
Called(op) == datum.op = op

IbmSign(payload) == BytesToBits(payload)[1]
IbmExponent(payload) == FromBits(SubSeq(BytesToBits(payload), 2, 8))
IbmMantissa(payload) == SubSeq(BytesToBits(payload), 9, 64)

\* the biased binary exponent of the value
RefExponent(payload) ==
    4 * (IbmExponent(payload) - 64) - 56 + (bit_length(IbmMantissa(payload)) - 1) + 1023

\* the first 52 bits after the leading one of the mantissa, nothing rounded
RefFraction(payload) ==
    SubSeq(SubSeq(IbmMantissa(payload),
                  56 - bit_length(IbmMantissa(payload)) + 2, 56) \o Rep(0, 52),
           1, 52)

\* the IEEE 754 double of the value, most significant byte first
RefDouble(payload) ==
    IF bit_length(IbmMantissa(payload)) = 0
    THEN <<128 * IbmSign(payload), 0, 0, 0, 0, 0, 0, 0>>
    ELSE BitsToBytes(<<IbmSign(payload)>> \o ToBits(RefExponent(payload), 11)
                     \o RefFraction(payload))

\* what ibm_to_double is to return for a payload of that value
RefResult(payload, pack_output) ==
    [error |-> "none",
     value |-> IF pack_output THEN [t |-> "bytes", v |-> Reverse(RefDouble(payload))]
               ELSE Float(RefDouble(payload))]

\* the listed vectors: 1, -1, 0, 2, 3 and 0x413FFFFFFFFFFFFF
Vectors ==
    { <<<<65, 16, 0, 0, 0, 0, 0, 0>>, <<63, 240, 0, 0, 0, 0, 0, 0>>>>,
      <<<<193, 16, 0, 0, 0, 0, 0, 0>>, <<191, 240, 0, 0, 0, 0, 0, 0>>>>,
      <<<<0, 0, 0, 0, 0, 0, 0, 0>>, <<0, 0, 0, 0, 0, 0, 0, 0>>>>,
      <<<<65, 32, 0, 0, 0, 0, 0, 0>>, <<64, 0, 0, 0, 0, 0, 0, 0>>>>,
      <<<<65, 48, 0, 0, 0, 0, 0, 0>>, <<64, 8, 0, 0, 0, 0, 0, 0>>>>,
      <<<<65, 63, 255, 255, 255, 255, 255, 255>>,
        <<64, 15, 255, 255, 255, 255, 255, 255>>>> }

VectorsHold ==
    \A v \in Vectors :
        rawdatum = v[1] =>
            datum.r.value = IF datum.args[1] THEN [t |-> "bytes", v |-> Reverse(v[2])]
                            ELSE Float(v[2])

\* C11 as stated: for ANY 8-byte payload ibm_to_double returns the double
\* that encodes (-1)^s * 16^(E-64) * M / 2^56 (packed: the same bits,
\* little-endian).  Violated: a payload whose last seven bytes are zero and
\* whose first is not is answered with None or nan, never with a zero.
C11_AnyPayloadEncodesValue ==
    Called("ibm_to_double") => datum.r = RefResult(rawdatum, datum.args[1])

\* C11, amended: for every 8-byte payload whose mantissa is not zero, and
\* for the all-zero payload, ibm_to_double returns the double whose sign,
\* exponent and 52-bit fraction encode (-1)^s * 16^(E-64) * M / 2^56, the
\* mantissa truncated and never rounded; the packed output is the same bit
\* pattern in little-endian order; the listed vectors are instances.
C11_NonZeroMantissaEncodesValue ==
    Called("ibm_to_double") =>
        /\ (bit_length(IbmMantissa(rawdatum)) > 0 \/ rawdatum = Rep(0, 8))
               => datum.r = RefResult(rawdatum, datum.args[1])
        /\ VectorsHold

\* a payload that loses mantissa bits has been converted to packed bytes
C11_Witness ==
    /\ Called("ibm_to_double")
    /\ rawdatum = <<65, 63, 255, 255, 255, 255, 255, 255>>
    /\ datum.args[1]
    /\ datum.r.value = [t |-> "bytes", v |-> <<255, 255, 255, 255, 255, 255, 15, 64>>]


\* the first byte of a special missing value: A..Z or _
Letters == Upper \cup {95}

ZeroTail(payload) == SubSeq(payload, 2, 8) = Rep(0, 7)

\* C12: the sentinels are classified before the numeric conversion: eight
\* zero bytes give exactly 0.0, 0x2E and seven zeros give the missing
\* numeric (null), and a letter A..Z or _ and seven zeros give a special
\* missing that is neither the null nor NaN.  Violated for the letters: they
\* are answered with NaN, and the letter is lost.
C12_SentinelsClassified ==
    (Called("ibm_to_double") /\ ZeroTail(rawdatum)) =>
        /\ (rawdatum[1] = 0 /\ ~datum.args[1]) => datum.r.value = Float(Rep(0, 8))
        /\ rawdatum[1] = DOT => datum.r.value = None
        /\ rawdatum[1] \in Letters => datum.r.value \notin {None, nan}


\* the format decoders and the type of the value each one formats
Decoders ==
    {<<"decode_date", "date">>, <<"decode_time", "time">>,
     <<"decode_datetime", "datetime">>}

\* C13: each of the DATE, TIME and DATETIME decoders returns null if and
\* only if the payload is the missing numeric, and the all-zero payload
\* (the epoch day, midnight) yields the formatted value.  Violated by
\* decode_time, which returns null for the all-zero payload as well.
C13_NullIffMissingNumeric ==
    \A d \in Decoders :
        Called(d[1]) =>
            /\ (datum.r.error = "none" /\ datum.r.value = None) <=> rawdatum = MISSING
            /\ rawdatum = Rep(0, 8) =>
                   datum.r = [error |-> "none", value |-> [t |-> d[2], v |-> Rep(0, 8)]]


\* nform, lower case, names a format decoder
KnownForm(nform) ==
    [i \in 1..Len(nform) |-> lower(nform[i])]
        \in {<<100, 97, 116, 101>>, <<116, 105, 109, 101>>,
             <<100, 97, 116, 101, 116, 105, 109, 101>>}

\* C14: a numeric column whose nform is not DATE, TIME, DATETIME or empty is
\* decoded as a plain number, with the result an empty nform gives, and the
\* decode of the row is not aborted.  Violated: the nform BEST raises
\* KeyError.
C14_UnknownFormIsPlainNumber ==
    (Called("unpack_record") /\ datum.args[1] = 1 /\ ~KnownForm(datum.args[2])) =>
        datum.r = unpack_record(rawdatum, <<Field(1, <<>>)>>, DOCUMENT.encoding)


\* C19: a column of ntype 2 is decoded as text whatever its nform is: the
\* row holds the text decode_string gives for the bytes of the column.
\* Violated: the nform $CHAR, which names no decoder, raises KeyError before
\* the type of the column is looked at.
C19_CharacterIgnoresForm ==
    (Called("unpack_record") /\ datum.args[1] = 2) =>
        /\ datum.r.error = "none"
        /\ datum.r.data = <<decode_string(rawdatum, DOCUMENT.encoding).value>>


\* the bits of the double ibm_to_double returned, most significant first
OutputBits == BytesToBits(IF datum.args[1] THEN Reverse(datum.r.value.v) ELSE datum.r.value.v)

\* bits 52..62 of the double
IeeeExponent == FromBits(SubSeq(OutputBits, 2, 12))

\* s = 56 - bit_length(mantissa) + 1
NormalisationShift(payload) == 56 - bit_length(IbmMantissa(payload)) + 1

Converted == Called("ibm_to_double") /\ bit_length(IbmMantissa(rawdatum)) > 0

\* C18 as stated: the biased IEEE exponent in bits 52..62 of the result is
\* ibm_exp * 4 + (4 - s) + 1023 with ibm_exp = E - 64, E the 7-bit biased
\* exponent of the payload, s the normalisation shift.  Violated: that is
\* four more than the exponent of the result (1.0 would get 1027).
C18_ExponentFromBias64 ==
    Converted =>
        IeeeExponent = (IbmExponent(rawdatum) - 64) * 4
                       + (4 - NormalisationShift(rawdatum)) + 1023

\* C18, amended: the biased IEEE exponent in bits 52..62 of the result is
\* ibm_exp * 4 + (4 - s) + 1023 with ibm_exp = E - 64 - 1 and
\* s = 56 - bit_length(mantissa) + 1, for every payload that is converted.
C18_ExponentFromBias65 ==
    Converted =>
        /\ datum.r.error = "none"
        /\ IeeeExponent = (IbmExponent(rawdatum) - 64 - 1) * 4
                          + (4 - NormalisationShift(rawdatum)) + 1023

\* a mantissa that needs the longest shift and one that needs the shortest
\* have been converted, at the two ends of the exponent range
C18_Witness ==
    /\ Converted
    /\ \/ rawdatum = <<127, 255, 255, 255, 255, 255, 255, 255>> /\ IeeeExponent = 1274
       \/ rawdatum = <<0, 0, 0, 0, 0, 0, 0, 1>> /\ IeeeExponent = 711


(***************************************************************************)
(* The observation buffer and the members, checked under Spec              *)
(***************************************************************************)
\* the last step handled a record in awaiting_observation_records that is
\* not a MEMBER header
ObservationHandled ==
    /\ Stepped
    /\ ~last.eof
    /\ last.from = "awaiting_observation_records"
    /\ last.to = "awaiting_observation_records"

\* C15: after every record handled in awaiting_observation_records that is
\* not a MEMBER header the observation buffer is drained: what is left in it
\* is shorter than recordlength.  Violated: at most one observation is taken
\* per record, so with recordlength 8 a record of 80 bytes leaves 72.
C15_BufferDrained ==
    (ObservationHandled /\ error = "none") =>
        Len(LastMember(document).observations) < LastMember(document).recordlength


RECURSIVE SumLng(_)
\* the sum of nlng over the names
SumLng(names) ==
    IF names = <<>> THEN 0 ELSE names[1].nlng + SumLng(Tail(names))

\* C16: every member that reaches the observation state has recordlength
\* equal to the sum of nlng over its names, and each name has npos >= 0 and
\* npos + nlng <= recordlength, whatever namestr records were accepted.
\* Violated: recordlength is npos + nlng of the last name, and nothing
\* compares the names with each other.
C16_RecordLengthIsSumOfLengths ==
    (state = "awaiting_observation_records" /\ error = "none") =>
        /\ LastMember(document).recordlength = SumLng(LastMember(document).names)
        /\ \A i \in 1..Len(LastMember(document).names) :
              /\ LastMember(document).names[i].npos >= 0
              /\ LastMember(document).names[i].npos + LastMember(document).names[i].nlng
                     <= LastMember(document).recordlength


\* history: the real member header records this call has accepted in
\* awaiting_member_data
MemberDataAccepted ==
    {i \in 1..Len(trace) :
        /\ ~trace[i].eof
        /\ trace[i].from = "awaiting_member_data"
        /\ trace[i].error = "none"}

\* C17: exactly one Member is appended per member header: document.members
\* has as many entries as real member header records were accepted in
\* awaiting_member_data, the retry with the other real_version included.
\* Violated: every attempt appends a Member, so a header in the version 6
\* layout leaves two for one record.
C17_OneMemberPerHeader ==
    Len(document.members) = Cardinality(MemberDataAccepted)


\* history: the step that brought the current member to the observations
ObsStart ==
    Max({i \in 1..Len(trace) :
            /\ trace[i].from = "awaiting_namestr_records"
            /\ trace[i].to = "awaiting_observation_records"})

\* the observation bytes appended to the buffer of the current member
Appended == Concat(SubSeq(infile, ObsStart + 1, Len(trace)))

\* how many of the steps up to i, since ObsStart, wrote a data row
RowsUpTo(i) == Cardinality({j \in (ObsStart + 1)..i : trace[j].rows = 1})

\* the data rows of the current member, in the order they were written
MemberRows == SelectSeq(csvout, LAMBDA r : r.kind = "data" /\ r.member = MembersSeen)

\* the k-th slice of recordlength bytes
NthSlice(bytes, recordlength, k) ==
    SubSeq(bytes, (k - 1) * recordlength + 1, k * recordlength)

InObservations ==
    /\ state = "awaiting_observation_records"
    /\ LastMember(document).recordlength >= 1

\* C20: for a member with recordlength >= 1, after any sequence of records,
\* the data rows written so far are the decodings of the first k consecutive
\* slices of recordlength bytes of the observation bytes appended, in order;
\* k * recordlength + len(observations) is the number of bytes appended;
\* k is at most floor(appended / recordlength); and every row has one field
\* per namestr.
C20_RowsAreConsecutiveSlices ==
    InObservations =>
        /\ Len(MemberRows) = RowsUpTo(Len(trace))
        /\ Len(MemberRows) * LastMember(document).recordlength
           + Len(LastMember(document).observations) = Len(Appended)
        /\ Len(MemberRows) <= Len(Appended) \div LastMember(document).recordlength
        /\ \A i \in (ObsStart + 1)..Len(trace) :
              trace[i].rows = 1 =>
                  /\ MemberRows[RowsUpTo(i)].row =
                         unpack_record(NthSlice(Appended,
                                                LastMember(document).recordlength,
                                                RowsUpTo(i)),
                                       LastMember(document).names,
                                       trace[i].encoding).data
                  /\ Len(MemberRows[RowsUpTo(i)].row) = Len(LastMember(document).names)

\* two observations of 100 bytes, the second across three records, have
\* been written and bytes of the next one wait in the buffer
C20_Witness ==
    /\ InObservations
    /\ error = "none"
    /\ LastMember(document).recordlength = 100
    /\ Len(MemberRows) >= 2
    /\ LastMember(document).observations # <<>>


\* the payload has more than one significant byte: it takes the numeric path
NumericPath == Called("ibm_to_double") /\ Len(rstrip(rawdatum, {NUL})) > 1

\* C21: for every 8-byte input that reaches the numeric path of
\* ibm_to_double the biased IEEE exponent lies in 1..2046: the overflow
\* error is never raised and the result is a finite, normal double.
C21_ExponentInRange ==
    NumericPath =>
        /\ datum.r.error = "none"
        /\ datum.r.value.t = IF datum.args[1] THEN "bytes" ELSE "float"
        /\ IeeeExponent \in 1..2046

\* the largest payload has been converted: 16^63 and a full mantissa
C21_Witness ==
    /\ NumericPath
    /\ ~datum.args[1]
    /\ rawdatum = <<255, 255, 255, 255, 255, 255, 255, 255>>
    /\ datum.r.value = Float(<<207, 175, 255, 255, 255, 255, 255, 255>>)


(***************************************************************************)
(* Termination, checked under FairSpec                                     *)
(***************************************************************************)
\* every iteration so far consumed one record or observed the end of input,
\* and the end of input, observed once and in whatever state, led to the
\* terminal state
OneRecordPerIteration ==
    /\ pos <= Len(infile)
    /\ Len(trace) = pos + Cardinality({i \in 1..Len(trace) : trace[i].eof})
    /\ \A i \in 1..Len(trace) :
          trace[i].eof =>
              /\ i = Len(trace)
              /\ pos = Len(infile)
              /\ trace[i].to = "complete"
              /\ trace[i].error = "none"
              /\ state = "complete"
              /\ error = "none"

\* no record was parsed by get_member_data more than twice
RetriedAtMostOnce == \A i \in 1..Len(trace) : Len(trace[i].tried) <= 2

\* the second decode of a field, as Latin-1, never fails: no handler that
\* decodes fields with decode_string ends in UnicodeDecodeError, and the
\* encoding is only ever switched to Latin-1
DecodedAtMostTwice ==
    \A i \in 1..Len(trace) :
        trace[i].from \in {"awaiting_namestr_records", "awaiting_observation_records"} =>
            /\ trace[i].error # "UnicodeDecodeError"
            /\ (IF i < Len(trace) THEN trace[i + 1].encoding ELSE DOCUMENT.encoding)
                   \in {trace[i].encoding, "latin1"}

\* C22: for every finite input the parser eventually stops, in the terminal
\* state or with a fatal error: each iteration of the loop consumes one
\* record or observes the end of input, the end of input leads to the
\* terminal state from any state, the retry with the other real_version runs
\* at most twice per record, and the Latin-1 fallback decodes a field again
\* at most once.
C22_EventuallyStops ==
    /\ [](OneRecordPerIteration /\ RetriedAtMostOnce /\ DecodedAtMostTwice)
    /\ (~Finished ~> Finished)

\* a conversion that took the retry and the Latin-1 fallback has stopped at
\* the end of its input
C22_Witness ==
    /\ state = "complete"
    /\ pos = Len(infile)
    /\ \/ \E i \in 1..Len(trace) : Len(trace[i].tried) = 2
       \/ \E i \in 1..Len(trace) :
             trace[i].encoding = "utf8" /\ DOCUMENT.encoding = "latin1"

====
